---- MODULE Spec2Model ----
(***************************************************************************)
(* Resume documents and their image assets, as served by the Express       *)
(* backend: the resume controller (create / get / update / delete),        *)
(* the image-upload controller behind the multer middleware, the Mongoose  *)
(* schema that decides which paths are persisted, and the uploads folder.  *)
(*                                                                         *)
(* A request is a sequence of atomic steps separated by its awaits: the    *)
(* code between two awaits runs without interleaving (one event loop),     *)
(* while steps of different requests interleave freely.                    *)
(***************************************************************************)
EXTENDS Integers, Sequences, FiniteSets, TLC

\* ------------------------------------------------------------------ bounds
MaxDocs == 2        \* documents ever created
MaxClock == 1       \* Date.now() ranges over 0..MaxClock
NReq == 2           \* requests in flight at once
MaxPatchKeys == 1   \* keys carried by one request body (besides a create's title)

Users == {"u1", "u2"}
Req == 1..NReq
Titles == {"T1", "T2"}
OrigNames == {"a.png"}

\* ------------------------------------------------------- files and URLs
\* storage.filename: `${Date.now()}-${file.originalname}`
FileName(t, orig) == <<t, orig>>

\* the falsy URL (undefined / null): a path the document does not carry
NoUrl == <<>>

\* the URL built from file.originalname instead of file.filename
UrlOfOriginalName(fname) == <<"http://host", "uploads", <<fname[2]>>>>

\* `${baseUrl}/uploads/${file.filename}`
Url(fname) == <<"http://host", "uploads", fname>>

\* path.basename(url): the last component of the URL
Basename(url) == url[Len(url)]

\* fileFilter: the MIME allow-list
allowedTypes == {"image/jpeg", "image/png", "image/jpg"}

\* the filter with image/jpg missing from its list
fileFilterWithoutJpg(file) == file.mimetype \in {"image/jpeg", "image/png"}

fileFilter(file) == file.mimetype \in allowedTypes

Mimes == allowedTypes \cup {"application/pdf"}

\* ------------------------------------------------------------ the schema
\* resumeSchema: the paths Mongoose persists (strict mode); the thumbnail
\* path of the schema is thumbLink.  Anything else set on a document is an
\* ad-hoc property of the in-memory object and is never written.
\* title stands for every content path (workExperience, skills, ...): each is
\* a schema path that Object.assign sets and save() writes, as title is.
SchemaKeys == {"userId", "title", "thumbLink", "profileInfo"}

\* keys a request body may carry: the schema paths, the thumbnailLink
\* property the controllers read, and the projects key of the create default
BodyKeys == SchemaKeys \cup {"thumbnailLink", "projects"}

\* URLs a client can put in a body
BodyUrls == {NoUrl, Url(FileName(0, "a.png"))}

NoBody ==
  [has |-> {}, userId |-> "u1", title |-> "", thumbLink |-> NoUrl,
   profileInfo |-> [profilePreviewUrl |-> NoUrl],
   thumbnailLink |-> NoUrl, projects |-> "p0"]

\* request bodies: `has` is the set of keys present, the other fields their
\* values (a key that is absent keeps the filler value of NoBody)
Bodies ==
  {b \in [has : SUBSET BodyKeys, userId : Users, title : Titles \cup {""},
          thumbLink : BodyUrls,
          profileInfo : [profilePreviewUrl : BodyUrls],
          thumbnailLink : BodyUrls, projects : {"p0", "p1"}] :
      /\ Cardinality(b.has) <= MaxPatchKeys
      /\ \A k \in BodyKeys \ b.has : b[k] = NoBody[k]}

\* the bodies of the interleaved runs: content only, so that an image URL is
\* persisted by an upload alone
ConcBodies == {b \in Bodies : b.has \subseteq {"title"}}

\* the bodies of the runs on several documents: content and owner
ListBodies == {b \in Bodies : b.has \subseteq {"title", "userId"}}

\* a document as held in memory by a handler: the schema paths plus the
\* ad-hoc thumbnailLink property
NullDoc ==
  [userId |-> "u1", title |-> "", thumbLink |-> NoUrl,
   profileInfo |-> [profilePreviewUrl |-> NoUrl], updatedAt |-> 0,
   thumbnailLink |-> NoUrl]

\* hydrating a stored document: thumbnailLink is no schema path, so it is
\* undefined on every loaded document
Hydrate(stored) ==
  [userId |-> stored.userId, title |-> stored.title,
   thumbLink |-> stored.thumbLink, profileInfo |-> stored.profileInfo,
   updatedAt |-> stored.updatedAt, thumbnailLink |-> NoUrl]

\* ---------------------------------------------- Dashboard: completion score
\* the edits that lead from an initial resume to the one that is scored
MaxEdits == 2

\* the values of a string field: empty, whitespace only, text.  A field the
\* response lacks (undefined, null) is the empty value: both are falsy.
StrVals == {"", " ", "X"}

\* the values of a numeric progress field; null is 0 (null > 0 is false)
ProgressVals == {0, 50}

\* the array sections of a resume that hold records
Sections ==
  {"workExperience", "education", "skills", "projects", "certifications",
   "languages"}

\* the record an array section starts with in defaultResumeData
BlankOf(section) ==
  CASE section = "workExperience" ->
         [company |-> "", role |-> "", startDate |-> "", endDate |-> "",
          description |-> ""]
    [] section = "education" ->
         [degree |-> "", institution |-> "", startDate |-> "", endDate |-> ""]
    [] section = "skills" -> [name |-> "", progress |-> 0]
    [] section = "projects" ->
         [title |-> "", description |-> "", github |-> "", liveDemo |-> ""]
    [] section = "certifications" -> [title |-> "", issuer |-> "", year |-> ""]
    [] section = "languages" -> [name |-> "", progress |-> 0]

\* a record of the section with every field set
FullOf(section) ==
  [k \in DOMAIN BlankOf(section) |-> IF k = "progress" THEN 50 ELSE "X"]

\* a resume whose array sections are empty or absent (?. skips an absent one)
EmptyResume ==
  [profileInfo |-> [fullName |-> "", designation |-> "", summary |-> ""],
   contactInfo |-> [email |-> "", phone |-> ""],
   workExperience |-> <<>>, education |-> <<>>, skills |-> <<>>,
   projects |-> <<>>, certifications |-> <<>>, languages |-> <<>>,
   interests |-> <<>>]

\* what the API returns for a resume created with only a title:
\* defaultResumeData cast to the schema.  Every scalar is empty, every array
\* section of the schema holds one blank record, interests is [""]; the
\* schema has no path `projects` (its path is `project`) and no path
\* profileInfo.fullName (its path is FullName), so the response lacks both.
DefaultResume ==
  [EmptyResume EXCEPT
     !.workExperience = <<BlankOf("workExperience")>>,
     !.education = <<BlankOf("education")>>,
     !.skills = <<BlankOf("skills")>>,
     !.certifications = <<BlankOf("certifications")>>,
     !.languages = <<BlankOf("languages")>>,
     !.interests = <<"">>]

\* a resume with one record in every section and every field set
FullResume ==
  [profileInfo |-> [fullName |-> "X", designation |-> "X", summary |-> "X"],
   contactInfo |-> [email |-> "X", phone |-> "X"],
   workExperience |-> <<FullOf("workExperience")>>,
   education |-> <<FullOf("education")>>,
   skills |-> <<FullOf("skills")>>,
   projects |-> <<FullOf("projects")>>,
   certifications |-> <<FullOf("certifications")>>,
   languages |-> <<FullOf("languages")>>,
   interests |-> <<"X">>]

\* a resume with a long work history: seven positions, four of them filled
\* in, under a filled-in profile without contact data
LongResume ==
  [EmptyResume EXCEPT
     !.profileInfo = [fullName |-> "X", designation |-> "X", summary |-> "X"],
     !.workExperience =
        <<FullOf("workExperience"), FullOf("workExperience"),
          FullOf("workExperience"), FullOf("workExperience"),
          BlankOf("workExperience"), BlankOf("workExperience"),
          BlankOf("workExperience")>>]

\* the resumes of the initial states
Seeds == {EmptyResume, DefaultResume, FullResume, LongResume}

\* if (x): a string is truthy unless it is empty
Truthy(v) == v # ""

\* String.prototype.trim
trim(s) == IF s = " " THEN "" ELSE s

\* a progress test that counts 0
NonNegative(progress) == progress >= 0

\* skill.progress > 0
Positive(progress) == progress > 0

RECURSIVE Sum(_)
Sum(s) == IF s = <<>> THEN 0 ELSE Head(s) + Sum(Tail(s))

\* the number of the fields `keys` of `rec` that are truthy
TruthyIn(rec, keys) == Cardinality({k \in keys : Truthy(rec[k])})

\* arr?.forEach(x => { if (x.k) completedFields++; ... }) for the string
\* fields `keys`: what the callback adds over the whole array
forEach(arr, keys) == Sum([i \in DOMAIN arr |-> TruthyIn(arr[i], keys)])

\* what `if (x.progress > 0) completedFields++` adds over the whole array
forEachProgress(arr) == Cardinality({i \in DOMAIN arr : Positive(arr[i].progress)})

\* totalFields without the five fields of profile and contact
totalFieldsOfRecords(resume) ==
  5 * Len(resume.workExperience) + 4 * Len(resume.education)
  + 2 * Len(resume.skills) + 4 * Len(resume.projects)
  + 3 * Len(resume.certifications) + 2 * Len(resume.languages)
  + Len(resume.interests)

\* totalFields at the return of calculateCompletion
totalFields(resume) ==
  3 + 2
  + 5 * Len(resume.workExperience) + 4 * Len(resume.education)
  + 2 * Len(resume.skills) + 4 * Len(resume.projects)
  + 3 * Len(resume.certifications) + 2 * Len(resume.languages)
  + Len(resume.interests)

\* completedFields at the return of calculateCompletion
completedFields(resume) ==
  TruthyIn(resume.profileInfo, {"fullName", "designation", "summary"})
  + TruthyIn(resume.contactInfo, {"email", "phone"})
  + forEach(resume.workExperience,
            {"company", "role", "startDate", "endDate", "description"})
  + forEach(resume.education, {"degree", "institution", "startDate", "endDate"})
  + forEach(resume.skills, {"name"}) + forEachProgress(resume.skills)
  + forEach(resume.projects, {"title", "description", "github", "liveDemo"})
  + forEach(resume.certifications, {"title", "issuer", "year"})
  + forEach(resume.languages, {"name"}) + forEachProgress(resume.languages)
  + Len(SelectSeq(resume.interests, LAMBDA i : trim(i) # ""))

\* what Math.round yields for a value that is no finite number (0/0, n/0)
NotFinite == -1

\* a 53-bit significand is held as digits to the base 2^13: four digits and
\* the leading bit
Digit == 8192

\* Math.round((completed / total) * 100) as JavaScript computes it, in
\* IEEE-754 doubles: the quotient is rounded to 53 bits (ties to even), the
\* product with 100 is rounded to 53 bits again, and Math.round takes the
\* nearest integer of that double, ties upwards.  For 0 < completed <= total:
\*   j      the quotient is y * 2^-j with 1 <= y < 2
\*   d1..d4 the 52 bits of y after its leading bit, r4 the remainder
\*   n0..n4 the significand of the rounded quotient, low digit first
\*   e0..e4 the digits of its exact product with 100, which has 53 + s bits
\*   up100  the rounding of the product drops s bits and rounds upwards
\*   half   the number of halves in the product before its rounding
\*   ones   every bit the product keeps below the halves is 1
Percent(completed, total) ==
  IF total = 0 THEN NotFinite
  ELSE IF completed = 0 THEN 0
  ELSE
    LET j == CHOOSE n \in 0..31 :
               /\ completed * 2^n >= total
               /\ n > 0 => completed * 2^(n - 1) < total
        r0 == completed * 2^j - total
        d4 == (r0 * Digit) \div total
        r1 == (r0 * Digit) % total
        d3 == (r1 * Digit) \div total
        r2 == (r1 * Digit) % total
        d2 == (r2 * Digit) \div total
        r3 == (r2 * Digit) % total
        d1 == (r3 * Digit) \div total
        r4 == (r3 * Digit) % total
        up == IF 2 * r4 > total \/ (2 * r4 = total /\ d1 % 2 = 1) THEN 1 ELSE 0
        n0 == (d1 + up) % Digit
        n1 == (d2 + (d1 + up) \div Digit) % Digit
        n2 == (d3 + (d2 + (d1 + up) \div Digit) \div Digit) % Digit
        c3 == (d3 + (d2 + (d1 + up) \div Digit) \div Digit) \div Digit
        n3 == (d4 + c3) % Digit
        n4 == 1 + (d4 + c3) \div Digit
        e0 == (n0 * 100) % Digit
        e1 == (n1 * 100 + (n0 * 100) \div Digit) % Digit
        k1 == (n1 * 100 + (n0 * 100) \div Digit) \div Digit
        e2 == (n2 * 100 + k1) % Digit
        k2 == (n2 * 100 + k1) \div Digit
        e3 == (n3 * 100 + k2) % Digit
        e4 == n4 * 100 + (n3 * 100 + k2) \div Digit
        s == IF e4 < 128 THEN 6 ELSE 7
        low == e0 % 2^s
        kept == e0 \div 2^s
        up100 == low > 2^(s - 1) \/ (low = 2^(s - 1) /\ kept % 2 = 1)
        top == e4 * Digit + e3
        half == top \div 2^(12 + j)
        ones == /\ kept = 2^(13 - s) - 1
                /\ e1 = Digit - 1
                /\ e2 = Digit - 1
                /\ top % 2^(12 + j) = 2^(12 + j) - 1
    IN (half + 1 + (IF up100 /\ ones THEN 1 ELSE 0)) \div 2

calculateCompletion(resume) ==
  Percent(completedFields(resume), totalFields(resume))

\* ----------------------------------------------------------------- state
VARIABLES
  docs,      \* the resumes collection: id -> stored document
  files,     \* names of the files in the uploads folder
  now,       \* Date.now()
  nextId,    \* the next _id the store assigns
  creator,   \* id -> the authenticated principal whose create call made it
  everStored, \* names of the files ever stored for an upload
  req,       \* the requests in flight
  resume,    \* a resume of the list the Dashboard fetched
  completion, \* the completion the Dashboard attached to it
  edits      \* the edits made to it so far

vars ==
  <<docs, files, now, nextId, creator, everStored, req, resume, completion, edits>>

\* the state of the Dashboard
scoreVars == <<resume, completion, edits>>

\* the state of the server
storeVars == <<docs, files, now, nextId, creator, everStored, req>>

\* the `error` key of a response body: absent, or the message of the exception
\* the handler caught (error.message)
NoError == ""

\* the messages of the exceptions a handler can catch
ValidationMessage == "Resume validation failed: title: Path title is required."

StoreMessage == "connection to the store lost"

NotFoundMessage == "No document found for query"

ReferenceMessage == "oldThumbnail is not defined"

UnlinkMessage == "EPERM: operation not permitted, unlink"

FilterMessage == "only .jpg, .jpeg, and .png files are allowed"

Idle ==
  [op |-> "idle", pc |-> "idle", user |-> "u1", id |-> 1, body |-> NoBody,
   doc |-> NullDoc, mod |-> {}, up |-> [thumbnail |-> <<>>, profileImage |-> <<>>],
   mimes |-> {}, status |-> 0, error |-> NoError, list |-> <<>>]

\* an empty store, no request, and a Dashboard showing a resume of S
InitOn(S) ==
  /\ docs = <<>>
  /\ files = {}
  /\ now = 0
  /\ nextId = 1
  /\ creator = <<>>
  /\ everStored = {}
  /\ req = [r \in Req |-> Idle]
  /\ resume \in S
  /\ completion = calculateCompletion(resume)
  /\ edits = 0

Init == InitOn({EmptyResume})

\* Resume.findOne({ _id: id, userId: user }) on the collection `coll`
findOneIn(coll, id, user) == id \in DOMAIN coll /\ coll[id].userId = user

findOne(id, user) == findOneIn(docs, id, user)

\* res.status(status).json(...): the request ends; what stays of it is who
\* asked for what, the MIME types of the files it carried, the files multer
\* stored for it, the status, and the `error` key of the body
Respond(r, status, error) ==
  [req EXCEPT ![r] = [Idle EXCEPT !.op = req[r].op, !.pc = "done",
                      !.user = req[r].user, !.id = req[r].id,
                      !.mimes = req[r].mimes, !.up = req[r].up,
                      !.status = status, !.error = error]]

\* ------------------------------------------------------------ createResume
\* { userId: req.user._id, title, ...defaultResumeData, ...req.body } cast to
\* the schema: a key of the body overrides the value before it.  The body
\* is `title` (empty when the request carries none) and the keys of `body`;
\* no key of defaultResumeData.profileInfo is an image path of the schema.
\* The timestamps option of the schema stamps updatedAt at the insert.
NewResume(user, title, body) ==
  [userId |-> IF "userId" \in body.has THEN body.userId ELSE user,
   title |-> title,
   thumbLink |-> IF "thumbLink" \in body.has THEN body.thumbLink ELSE NoUrl,
   profileInfo |-> IF "profileInfo" \in body.has THEN body.profileInfo
                   ELSE [profilePreviewUrl |-> NoUrl],
   updatedAt |-> now]

\* schema validation: title is required (an empty string fails `required`)
Valid(doc) == doc.title # ""

\* Resume.create validates, then inserts; `fault`: the insert is rejected by
\* the store.  Either exception reaches the one catch of the handler, which
\* answers 500 with error.message.
createResume(r, user, title, body, fault) ==
  /\ req[r].pc = "idle"
  /\ nextId <= MaxDocs
  /\ "title" \notin body.has
  /\ LET new == NewResume(user, title, body)
         start == [req EXCEPT ![r].op = "create", ![r].user = user, ![r].id = nextId]
     IN IF Valid(new) /\ ~fault
        THEN /\ docs' = [i \in DOMAIN docs \cup {nextId} |->
                           IF i = nextId THEN new ELSE docs[i]]
             /\ creator' = [i \in DOMAIN creator \cup {nextId} |->
                              IF i = nextId THEN user ELSE creator[i]]
             /\ nextId' = nextId + 1
             /\ req' = [start EXCEPT ![r].pc = "done", ![r].status = 201]
        ELSE /\ req' = [start EXCEPT ![r].pc = "done", ![r].status = 500,
                          ![r].error = IF Valid(new) THEN StoreMessage
                                       ELSE ValidationMessage]
             /\ UNCHANGED <<docs, creator, nextId>>
  /\ UNCHANGED <<files, now, everStored>>
  /\ UNCHANGED scoreVars

\* ----------------------------------------------------------- getResumeById
getResumeById(r, user, id) ==
  /\ req[r].pc = "idle"
  /\ LET start == [req EXCEPT ![r].op = "get", ![r].user = user, ![r].id = id]
     IN IF findOne(id, user)
        THEN req' = [start EXCEPT ![r].pc = "done", ![r].status = 200]
        ELSE req' = [start EXCEPT ![r].pc = "done", ![r].status = 404]
  /\ UNCHANGED <<docs, files, now, nextId, creator, everStored>>
  /\ UNCHANGED scoreVars

\* ---------------------------------------------------------- getUserResumes
\* the sequences that hold every element of the set S once
Orders(S) ==
  {s \in [1..Cardinality(S) -> S] : \A x \in S : \E i \in DOMAIN s : s[i] = x}

\* .sort({ updatedAt: 1 }): the ascending order
SortedAsc(coll, s) ==
  \A i, j \in DOMAIN s : i < j => coll[s[i]].updatedAt <= coll[s[j]].updatedAt

\* .sort({ updatedAt: -1 }): no element is older than one after it; the
\* order of documents with equal updatedAt is the store's choice
SortedDesc(coll, s) ==
  \A i, j \in DOMAIN s : i < j => coll[s[i]].updatedAt >= coll[s[j]].updatedAt

\* Resume.find({ userId: user }).sort({ updatedAt: -1 }), as the _ids of the
\* documents in the order of the response
find(coll, user) ==
  {s \in Orders({i \in DOMAIN coll : coll[i].userId = user}) : SortedDesc(coll, s)}

getUserResumes(r, user) ==
  /\ req[r].pc = "idle"
  /\ \E out \in find(docs, user) :
       req' = [req EXCEPT ![r].op = "list", ![r].user = user, ![r].pc = "done",
                          ![r].status = 200, ![r].list = out]
  /\ UNCHANGED <<docs, files, now, nextId, creator, everStored>>
  /\ UNCHANGED scoreVars

\* ------------------------------------------------------------ updateResume
\* Object.assign(resume, req.body) on a Mongoose document: a schema path goes
\* through its setter, thumbnailLink becomes an ad-hoc property, any other
\* key (projects) is an ad-hoc property nothing reads
Assign(doc, body) ==
  [k \in DOMAIN doc |-> IF k \in body.has THEN body[k] ELSE doc[k]]

\* the paths Mongoose marks modified: schema paths set to a different value
Modified(doc, body) == {k \in body.has \cap SchemaKeys : body[k] # doc[k]}

\* findOne, the 404 test, Object.assign and the call of save()
updateLoad(r, user, id, body) ==
  /\ req[r].pc = "idle"
  /\ LET start == [req EXCEPT ![r].op = "update", ![r].user = user, ![r].id = id]
     IN IF findOne(id, user)
        THEN req' = [start EXCEPT ![r].pc = "save", ![r].body = body,
                                  ![r].doc = Assign(Hydrate(docs[id]), body),
                                  ![r].mod = Modified(Hydrate(docs[id]), body)]
        ELSE req' = [start EXCEPT ![r].pc = "done", ![r].status = 404]
  /\ UNCHANGED <<docs, files, now, nextId, creator, everStored>>
  /\ UNCHANGED scoreVars

\* what updateOne({ _id }, { $set: modified paths }) leaves in the store;
\* the timestamps option adds updatedAt to the $set of a modified document
SetPaths(stored, doc, mod) ==
  [k \in SchemaKeys \cup {"updatedAt"} |->
     IF k = "updatedAt" THEN now
     ELSE IF k \in mod THEN doc[k]
     ELSE IF k = "profileInfo" /\ "profileInfo.profilePreviewUrl" \in mod
          THEN [stored.profileInfo EXCEPT
                  !.profilePreviewUrl = doc.profileInfo.profilePreviewUrl]
          ELSE stored[k]]

\* document.save(): validation, then the $set of the modified paths on the
\* document of that _id; nothing modified writes nothing; no document of
\* that _id any more is an error (DocumentNotFoundError), never an insert.
\* `fault`: the store rejects the write.  Yields the message of the
\* exception save() throws, NoError when it resolves.
SaveError(r, fault) ==
  IF ~Valid(req[r].doc) THEN ValidationMessage
  ELSE IF req[r].mod = {} THEN NoError
  ELSE IF fault THEN StoreMessage
  ELSE IF req[r].id \notin DOMAIN docs THEN NotFoundMessage
  ELSE NoError

\* the status the handler answers with: 200 after save(), 500 from its catch
SaveStatus(r, fault) == IF SaveError(r, fault) = NoError THEN 200 ELSE 500

\* a save() that inserts the in-memory document when the store holds none of
\* that _id
SavedUpsert(r, fault) ==
  IF Valid(req[r].doc) /\ ~fault /\ req[r].mod # {}
  THEN [i \in DOMAIN docs \cup {req[r].id} |->
          IF i = req[r].id
          THEN SetPaths(IF i \in DOMAIN docs THEN docs[i] ELSE req[r].doc,
                        req[r].doc, req[r].mod)
          ELSE docs[i]]
  ELSE docs

Saved(r, fault) ==
  IF SaveStatus(r, fault) = 200 /\ req[r].mod # {}
  THEN [docs EXCEPT ![req[r].id] = SetPaths(docs[req[r].id], req[r].doc, req[r].mod)]
  ELSE docs

updateSave(r, fault) ==
  /\ req[r].op = "update" /\ req[r].pc = "save"
  /\ docs' = Saved(r, fault)
  /\ req' = Respond(r, SaveStatus(r, fault), SaveError(r, fault))
  /\ UNCHANGED <<files, now, nextId, creator, everStored>>
  /\ UNCHANGED scoreVars

\* ------------------------------------------------------------ deleteResume
deleteLoad(r, user, id) ==
  /\ req[r].pc = "idle"
  /\ LET start == [req EXCEPT ![r].op = "delete", ![r].user = user, ![r].id = id]
     IN IF findOne(id, user)
        THEN req' = [start EXCEPT ![r].pc = "cleanup",
                                  ![r].doc = Hydrate(docs[id])]
        ELSE req' = [start EXCEPT ![r].pc = "done", ![r].status = 404]
  /\ UNCHANGED <<docs, files, now, nextId, creator, everStored>>
  /\ UNCHANGED scoreVars

\* if (fs.existsSync(p)) fs.unlinkSync(p), for the file a URL names
unlinkOld(fs, url) == IF url # NoUrl THEN fs \ {Basename(url)} ELSE fs

\* fs.unlinkSync is reached for the file a URL names: the URL is set and
\* existsSync finds the file.  Only then can the file system fail the call.
Unlinks(fs, url) == url # NoUrl /\ Basename(url) \in fs

\* the file cleanup between findOne and findOneAndDelete.  The thumbnail
\* block declares `const oldThumbnail` in its own scope; the profile block
\* reads oldThumbnail outside that scope, which throws a ReferenceError
\* whenever the document has a profile image: the catch answers 500.
\* `fault`: unlinkSync throws.  No try/catch of its own surrounds the
\* cleanup: whatever it throws reaches the catch of the handler.
deleteCleanup(r, fault) ==
  /\ req[r].op = "delete" /\ req[r].pc = "cleanup"
  /\ IF fault /\ Unlinks(files, req[r].doc.thumbnailLink)
     THEN /\ files' = files
          /\ req' = Respond(r, 500, UnlinkMessage)
     ELSE /\ files' = unlinkOld(files, req[r].doc.thumbnailLink)
          /\ IF req[r].doc.profileInfo.profilePreviewUrl # NoUrl
             THEN req' = Respond(r, 500, ReferenceMessage)
             ELSE req' = [req EXCEPT ![r].pc = "remove"]
  /\ UNCHANGED <<docs, now, nextId, creator, everStored>>
  /\ UNCHANGED scoreVars

\* Resume.findOneAndDelete({ _id, userId })
deleteRemove(r) ==
  /\ req[r].op = "delete" /\ req[r].pc = "remove"
  /\ IF findOne(req[r].id, req[r].user)
     THEN /\ docs' = [i \in DOMAIN docs \ {req[r].id} |-> docs[i]]
          /\ req' = Respond(r, 200, NoError)
     ELSE /\ docs' = docs
          /\ req' = Respond(r, 404, NoError)
  /\ UNCHANGED <<files, now, nextId, creator, everStored>>
  /\ UNCHANGED scoreVars

\* ------------------------------------------------------ uploadResumeImages
NoFile == <<>>

\* the files one request can carry in a field: none, or one file
Uploads(M) == {NoFile} \cup {<<[originalname |-> o, mimetype |-> m]>> :
                               o \in OrigNames, m \in M}

\* upload.fields([...]) of the route, ahead of the handler: every accepted
\* file is on disk, under storage.filename, before the handler runs.  A file
\* the filter rejects fails the request: multer unlinks what the request
\* stored before it (a file that preceded the rejected one in the stream,
\* written under its name and removed again), and the error goes to the
\* default error handler of Express, no error middleware being installed:
\* 500, with the stack of the error unless NODE_ENV is production.
multerStore(r, user, id, thumbnail, profileImage, t2) ==
  /\ req[r].pc = "idle"
  /\ t2 \in {now, IF now < MaxClock THEN now + 1 ELSE now}
  /\ LET sent == {f \in {thumbnail, profileImage} : f # NoFile}
         start == [req EXCEPT ![r].op = "upload", ![r].user = user, ![r].id = id,
                              ![r].mimes = {f[1].mimetype : f \in sent}]
         nameT == IF thumbnail = NoFile THEN <<>>
                  ELSE FileName(now, thumbnail[1].originalname)
         nameP == IF profileImage = NoFile THEN <<>>
                  ELSE FileName(t2, profileImage[1].originalname)
     IN IF \A f \in sent : fileFilter(f[1])
        THEN /\ files' = files \cup ({nameT, nameP} \ {<<>>})
             /\ everStored' = everStored \cup ({nameT, nameP} \ {<<>>})
             /\ now' = IF profileImage = NoFile THEN now ELSE t2
             /\ req' = [start EXCEPT ![r].pc = "find",
                          ![r].up = [thumbnail |-> nameT, profileImage |-> nameP]]
        ELSE /\ \E error \in {FilterMessage, NoError} :
                  req' = [start EXCEPT ![r].pc = "done", ![r].status = 500,
                                       ![r].error = error]
             /\ \E first \in sent :
                  files' = IF fileFilter(first[1])
                           THEN files \ {FileName(now, first[1].originalname)}
                           ELSE files
             /\ UNCHANGED <<now, everStored>>
  /\ UNCHANGED <<docs, nextId, creator>>
  /\ UNCHANGED scoreVars

\* the handler without its "No files uploaded" test
NoFilesUntested(up) == FALSE

\* !req.files || (!req.files.thumbnail && !req.files.profileImage)
NoFiles(up) == up.thumbnail = <<>> /\ up.profileImage = <<>>

\* findOne, the 404 test and the "No files uploaded" test
uploadFind(r) ==
  /\ req[r].op = "upload" /\ req[r].pc = "find"
  /\ IF ~findOne(req[r].id, req[r].user)
     THEN req' = Respond(r, 404, NoError)
     ELSE IF NoFiles(req[r].up)
          THEN req' = Respond(r, 400, NoError)
          ELSE req' = [req EXCEPT ![r].pc = "replace",
                                  ![r].doc = Hydrate(docs[req[r].id])]
  /\ UNCHANGED <<docs, files, now, nextId, creator, everStored>>
  /\ UNCHANGED scoreVars

\* a handler that persists the new profile URL in the step that deletes the
\* previous file, ahead of its save step
uploadPersistThenReplace(r, fault) ==
  /\ req[r].op = "upload" /\ req[r].pc = "replace"
  /\ LET d == req[r].doc
         newP == req[r].up.profileImage
         d2 == IF newP # <<>>
               THEN [d EXCEPT !.profileInfo.profilePreviewUrl = Url(newP)] ELSE d
     IN /\ docs' = IF newP # <<>> /\ req[r].id \in DOMAIN docs
                   THEN [docs EXCEPT ![req[r].id].profileInfo.profilePreviewUrl
                                        = Url(newP)]
                   ELSE docs
        /\ files' = IF newP # <<>>
                    THEN unlinkOld(files, d.profileInfo.profilePreviewUrl)
                    ELSE files
        /\ req' = [req EXCEPT ![r].pc = "save", ![r].doc = d2, ![r].mod = {}]
  /\ UNCHANGED <<now, nextId, creator, everStored>>
  /\ UNCHANGED scoreVars

\* the two replace blocks, then the call of save(): each deletes the file
\* the loaded document names for the slot and sets the slot's URL on the
\* in-memory document: thumbnailLink for the thumbnail,
\* profileInfo.profilePreviewUrl for the profile image.  `fault`: the first
\* unlinkSync reached throws, which ends the handler in its catch.
uploadReplace(r, fault) ==
  /\ req[r].op = "upload" /\ req[r].pc = "replace"
  /\ LET d == req[r].doc
         newT == req[r].up.thumbnail
         newP == req[r].up.profileImage
         fs1 == IF newT # <<>> THEN unlinkOld(files, d.thumbnailLink) ELSE files
         d1 == IF newT # <<>> THEN [d EXCEPT !.thumbnailLink = Url(newT)] ELSE d
         fs2 == IF newP # <<>>
                THEN unlinkOld(fs1, d1.profileInfo.profilePreviewUrl) ELSE fs1
         d2 == IF newP # <<>>
               THEN [d1 EXCEPT !.profileInfo.profilePreviewUrl = Url(newP)] ELSE d1
         throwsT == fault /\ newT # <<>> /\ Unlinks(files, d.thumbnailLink)
         throwsP == fault /\ newP # <<>>
                          /\ Unlinks(fs1, d1.profileInfo.profilePreviewUrl)
     IN IF throwsT
        THEN /\ files' = files
             /\ req' = Respond(r, 500, UnlinkMessage)
        ELSE IF throwsP
        THEN /\ files' = fs1
             /\ req' = Respond(r, 500, UnlinkMessage)
        ELSE /\ files' = fs2
             /\ req' = [req EXCEPT ![r].pc = "save", ![r].doc = d2,
                          ![r].mod = IF d2.profileInfo # d.profileInfo
                                     THEN {"profileInfo.profilePreviewUrl"} ELSE {}]
  /\ UNCHANGED <<docs, now, nextId, creator, everStored>>
  /\ UNCHANGED scoreVars

\* await resumeDoc.save(), then the 200 with both URLs of the in-memory
\* document (500 from the catch when save throws)
uploadSave(r, fault) ==
  /\ req[r].op = "upload" /\ req[r].pc = "save"
  /\ docs' = Saved(r, fault)
  /\ req' = Respond(r, SaveStatus(r, fault), SaveError(r, fault))
  /\ UNCHANGED <<files, now, nextId, creator, everStored>>
  /\ UNCHANGED scoreVars

\* the client has its response: the slot is free again
Finish(r) ==
  /\ req[r].pc = "done"
  /\ req' = [req EXCEPT ![r] = Idle]
  /\ UNCHANGED <<docs, files, now, nextId, creator, everStored>>
  /\ UNCHANGED scoreVars

\* time passes
Tick ==
  /\ now < MaxClock
  /\ now' = now + 1
  /\ UNCHANGED <<docs, files, nextId, creator, everStored, req>>
  /\ UNCHANGED scoreVars

\* the steps of the requests of slots R, on at most D documents, with bodies
\* from B and files of MIME types from M; F holds TRUE when the store and the
\* file system may fail a call
NextOn(R, D, B, M, F) ==
  \/ \E r \in R, u \in Users, t \in Titles \cup {""}, b \in B, f \in F :
        nextId <= D /\ createResume(r, u, t, b, f)
  \/ \E r \in R, u \in Users : getUserResumes(r, u)
  \/ \E r \in R, u \in Users, i \in 1..D : getResumeById(r, u, i)
  \/ \E r \in R, u \in Users, i \in 1..D, b \in B : updateLoad(r, u, i, b)
  \/ \E r \in R, f \in F : updateSave(r, f)
  \/ \E r \in R, u \in Users, i \in 1..D : deleteLoad(r, u, i)
  \/ \E r \in R, f \in F : deleteCleanup(r, f)
  \/ \E r \in R : deleteRemove(r)
  \/ \E r \in R, u \in Users, i \in 1..D, t \in Uploads(M), p \in Uploads(M),
        t2 \in 0..MaxClock : multerStore(r, u, i, t, p, t2)
  \/ \E r \in R : uploadFind(r)
  \/ \E r \in R, f \in F : uploadReplace(r, f)
  \/ \E r \in R, f \in F : uploadSave(r, f)
  \/ \E r \in R : Finish(r)
  \/ Tick

\* one request at a time on one document: every handler runs from its first
\* step to its response before the next request starts
Next == NextOn({1}, 1, Bodies, Mimes, BOOLEAN)

Spec == Init /\ [][Next]_vars

\* requests in flight together, their steps interleaved, on one document
NextConc == NextOn(Req, 1, ConcBodies, {"image/png"}, BOOLEAN)

SpecConc == Init /\ [][NextConc]_vars

\* one request at a time on several documents of several owners
NextList == NextOn({1}, MaxDocs, ListBodies, {"image/png"}, BOOLEAN)

SpecList == Init /\ [][NextList]_vars

\* ------------------------------------------------- Dashboard: the fetch
\* fetchAllResumes after an edit of the resume: the list holds the resume as
\* edited, with the completion calculateCompletion gives it
fetchAllResumes(edited) ==
  /\ edits < MaxEdits
  /\ edited # resume
  /\ resume' = edited
  /\ completion' = calculateCompletion(edited)
  /\ edits' = edits + 1
  /\ UNCHANGED storeVars

\* a field of profileInfo or contactInfo got another value
setScalar(part, k, v) ==
  /\ part \in {"profileInfo", "contactInfo"}
  /\ k \in DOMAIN resume[part]
  /\ fetchAllResumes([resume EXCEPT ![part][k] = v])

\* a string field of a record of an array section got another value
setRecordField(section, i, k, v) ==
  /\ i \in DOMAIN resume[section]
  /\ k \in DOMAIN resume[section][i] \ {"progress"}
  /\ fetchAllResumes([resume EXCEPT ![section][i][k] = v])

\* the progress of a skill or language got another value
setProgress(section, i, v) ==
  /\ i \in DOMAIN resume[section]
  /\ fetchAllResumes([resume EXCEPT ![section][i].progress = v])

\* an interest got another value
setInterest(i, v) ==
  /\ i \in DOMAIN resume.interests
  /\ fetchAllResumes([resume EXCEPT !.interests[i] = v])

\* a blank record was added to an array section
addRecord(section) ==
  /\ section \in Sections
  /\ fetchAllResumes([resume EXCEPT ![section] = Append(@, BlankOf(section))])

\* an empty interest was added
addInterest ==
  /\ resume.interests \in Seq(StrVals)
  /\ fetchAllResumes([resume EXCEPT !.interests = Append(@, "")])

\* the last record of an array section, or the last interest, was removed
removeLast(section) ==
  /\ resume[section] # <<>>
  /\ fetchAllResumes([resume EXCEPT
                        ![section] = SubSeq(@, 1, Len(@) - 1)])

NextScore ==
  \/ \E part \in {"profileInfo", "contactInfo"},
        k \in {"fullName", "designation", "summary", "email", "phone"},
        v \in StrVals : setScalar(part, k, v)
  \/ \E section \in Sections, i \in 1..8,
        k \in UNION {DOMAIN BlankOf(x) : x \in Sections},
        v \in StrVals : setRecordField(section, i, k, v)
  \/ \E section \in {"skills", "languages"}, i \in 1..3, v \in ProgressVals :
        setProgress(section, i, v)
  \/ \E i \in 1..3, v \in StrVals : setInterest(i, v)
  \/ \E section \in Sections : addRecord(section)
  \/ addInterest
  \/ \E section \in Sections \cup {"interests"} : removeLast(section)

\* the Dashboard scoring a resume as it is edited
SpecScore == InitOn(Seeds) /\ [][NextScore]_vars

\* ================================================================ properties
\* the step taken is a step of request r
StepOf(r) == req'[r] # req[r]

\* request r gets its response in this step
Completes(r) == req[r].pc # "done" /\ req'[r].pc = "done"

\* no request is between its first step and its response
AtRest == \A r \in Req : req[r].pc \in {"idle", "done"}

\* the persisted URL `url` names no file, or a file of the uploads folder
Backed(url, fs) == url # NoUrl => Basename(url) \in fs

\* C1: ownership isolation.  A get, update or delete by a principal other
\* than the one whose create call made the document answers 404 (as for an id
\* that does not exist) and changes no document and no file.
C1_OwnershipIsolation ==
  [][\A r \in Req :
       ( /\ StepOf(r)
         /\ req'[r].op \in {"get", "update", "delete"}
         /\ req'[r].id \in DOMAIN creator
         /\ creator[req'[r].id] # req'[r].user )
       => /\ docs' = docs
          /\ files' = files
          /\ (req'[r].pc = "done" => req'[r].status = 404)]_vars

\* C2: a delete by the owner, whatever images the document has, succeeds:
\* it answers 200, the record is gone (so getById answers 404), and neither
\* the file its thumbnail URL names nor the file its profile-image URL names
\* is left in the uploads folder.
C2_DeleteRemovesAll ==
  [][\A r \in Req :
       ( /\ req[r].op = "delete"
         /\ req[r].pc \in {"cleanup", "remove"}
         /\ Completes(r) )
       => /\ req'[r].status = 200
          /\ ~findOneIn(docs', req[r].id, req[r].user)
          /\ req[r].doc.thumbLink # NoUrl
               => Basename(req[r].doc.thumbLink) \notin files'
          /\ req[r].doc.profileInfo.profilePreviewUrl # NoUrl
               => Basename(req[r].doc.profileInfo.profilePreviewUrl) \notin files']_vars

\* C3: no dangling reference at rest.  With no request in flight, the
\* thumbnail URL and the profile-image URL of every stored document, when
\* set, name a file of the uploads folder.
C3_NoDanglingAtRest ==
  AtRest =>
    \A i \in DOMAIN docs :
      /\ Backed(docs[i].thumbLink, files)
      /\ Backed(docs[i].profileInfo.profilePreviewUrl, files)

\* C4: no dangling reference in flight.  While an upload that replaces the
\* existing image of a slot by another file is in progress, none of its
\* steps takes the document from a state where the slot's persisted URL
\* names an existing file to a state, observable by a concurrent getById,
\* where the persisted URL names a file that is gone.
C4_NoDanglingInFlight ==
  [][\A r \in Req :
       ( /\ StepOf(r)
         /\ req[r].op = "upload"
         /\ req[r].id \in DOMAIN docs
         /\ docs[req[r].id].profileInfo.profilePreviewUrl # NoUrl
         /\ Basename(docs[req[r].id].profileInfo.profilePreviewUrl)
              # req[r].up.profileImage
         /\ Backed(docs[req[r].id].profileInfo.profilePreviewUrl, files)
         /\ Backed(docs[req[r].id].thumbLink, files) )
       => /\ req[r].id \in DOMAIN docs'
          /\ Backed(docs'[req[r].id].profileInfo.profilePreviewUrl, files')
          /\ Backed(docs'[req[r].id].thumbLink, files')]_vars

\* C5: replace semantics, per slot.  When an upload carrying a file for a
\* slot answers 200, the persisted URL of the slot names the file stored for
\* it, that file exists, and the file the slot's URL named before (the
\* earlier upload's file) is gone.
C5_ReplaceSemantics ==
  [][\A r \in Req :
       ( /\ req[r].op = "upload"
         /\ req[r].pc = "save"
         /\ Completes(r)
         /\ req'[r].status = 200 )
       => LET i == req[r].id
              newT == req[r].up.thumbnail
              newP == req[r].up.profileImage
              oldT == docs[i].thumbLink
              oldP == docs[i].profileInfo.profilePreviewUrl
          IN /\ i \in DOMAIN docs'
             /\ newT # <<>> =>
                  /\ docs'[i].thumbLink = Url(newT)
                  /\ newT \in files'
                  /\ (oldT # NoUrl /\ Basename(oldT) # newT)
                       => Basename(oldT) \notin files'
             /\ newP # <<>> =>
                  /\ docs'[i].profileInfo.profilePreviewUrl = Url(newP)
                  /\ newP \in files'
                  /\ (oldP # NoUrl /\ Basename(oldP) # newP)
                       => Basename(oldP) \notin files']_vars

\* C6: userId is immutable under update.  No step of an update changes the
\* userId of a stored document, whatever keys the body carries.
C6_OwnerImmutable ==
  [][\A r \in Req :
       (StepOf(r) /\ req[r].op = "update")
       => \A i \in DOMAIN docs :
            i \in DOMAIN docs' /\ docs'[i].userId = docs[i].userId]_vars

\* C7: create assigns the requester as owner.  The userId of every document
\* a create call stores is the authenticated principal of that call.
C7_CreateOwner ==
  [][\A i \in DOMAIN docs' \ DOMAIN docs : docs'[i].userId = creator'[i]]_vars

\* C8: image fields change only through uploadImages.  No step of an update
\* changes the persisted thumbnail URL or profile-image URL of a document.
C8_ImagesOnlyByUpload ==
  [][\A r \in Req :
       (StepOf(r) /\ req[r].op = "update")
       => \A i \in DOMAIN docs :
            /\ i \in DOMAIN docs'
            /\ docs'[i].thumbLink = docs[i].thumbLink
            /\ docs'[i].profileInfo.profilePreviewUrl
                 = docs[i].profileInfo.profilePreviewUrl]_vars

\* C9: merge semantics of update.  An update by the owner (a body that keeps
\* the title non-empty, a store that does not fail) answers 200; afterwards every key of the body is a
\* key of the stored document with the body's value, every other key is
\* but updatedAt is unchanged, and the owner's getById finds that document.
C9_UpdateMerge ==
  [][\A r \in Req :
       ( /\ req[r].op = "update"
         /\ req[r].pc = "save"
         /\ Completes(r)
         /\ req'[r].error # StoreMessage
         /\ ("title" \in req[r].body.has => req[r].body.title # "") )
       => LET i == req[r].id
              b == req[r].body
          IN /\ req'[r].status = 200
             /\ findOneIn(docs', i, req[r].user)
             /\ \A k \in b.has : k \in DOMAIN docs'[i] /\ docs'[i][k] = b[k]
             /\ \A k \in DOMAIN docs[i] \ (b.has \cup {"updatedAt"}) :
                  docs'[i][k] = docs[i][k]]_vars

\* C10: a failed upload has no partial effect.  An upload answered 404 (the
\* id is absent or owned by another principal) has stored no file.
C10_FailedUploadWritesNothing ==
  \A r \in Req :
    (req[r].op = "upload" /\ req[r].pc = "done" /\ req[r].status = 404)
    => req[r].up.thumbnail = <<>> /\ req[r].up.profileImage = <<>>
\* C11: cleanup failure on delete is not fatal.  When the cleanup step of a
\* delete by the owner fails to remove a file the document names (the file of
\* its thumbnail URL or of its profile-image URL is there before the step and
\* still there after it), the delete does not end in an error: the handler
\* goes on to remove the record.
C11_DeleteCleanupNotFatal ==
  [][\A r \in Req :
       ( /\ StepOf(r)
         /\ req[r].op = "delete"
         /\ req[r].pc = "cleanup"
         /\ \E url \in {req[r].doc.thumbLink,
                        req[r].doc.profileInfo.profilePreviewUrl} :
              /\ url # NoUrl
              /\ Basename(url) \in files
              /\ Basename(url) \in files' )
       => req'[r].pc = "remove"]_vars

\* C12: cleanup failure on replace is swallowed.  When the replace step of an
\* upload carrying a profile image fails to delete the slot's previous file
\* (a file other than the new one, there before the step and still there
\* after it), the upload
\* does not end in an error: the new URL is set on the document and the
\* handler goes on to persist it.
C12_ReplaceCleanupSwallowed ==
  [][\A r \in Req :
       ( /\ StepOf(r)
         /\ req[r].op = "upload"
         /\ req[r].pc = "replace"
         /\ req[r].up.profileImage # <<>>
         /\ Unlinks(files, req[r].doc.profileInfo.profilePreviewUrl)
         /\ Basename(req[r].doc.profileInfo.profilePreviewUrl)
              # req[r].up.profileImage
         /\ Basename(req[r].doc.profileInfo.profilePreviewUrl) \in files' )
       => /\ req'[r].pc = "save"
          /\ req'[r].doc.profileInfo.profilePreviewUrl
               = Url(req[r].up.profileImage)]_vars

\* C13: persistence failure in an upload.  When save() fails in an upload
\* whose files are stored, the caller gets an error, no stored document
\* changes, and the persisted thumbnail and profile-image URLs of the
\* document still name files of the uploads folder.
C13_SaveFailureKeepsOldFile ==
  [][\A r \in Req :
       ( /\ req[r].op = "upload"
         /\ req[r].pc = "save"
         /\ Completes(r)
         /\ req'[r].error # NoError
         /\ req[r].id \in DOMAIN docs )
       => /\ req'[r].status >= 400
          /\ docs' = docs
          /\ Backed(docs'[req[r].id].profileInfo.profilePreviewUrl, files')
          /\ Backed(docs'[req[r].id].thumbLink, files')]_vars

\* C14: slot independence.  No step of an upload that carries a file for one
\* slot only changes the persisted URL of the other slot, or removes the file
\* that URL names (a file other than the one the upload itself stored).
C14_SlotIndependence ==
  [][\A r \in Req :
       ( /\ StepOf(r)
         /\ req'[r].op = "upload"
         /\ req'[r].id \in DOMAIN docs )
       => LET i == req'[r].id
              up == req'[r].up
              other(url) == Unlinks(files, url)
                            /\ Basename(url) \notin {up.thumbnail, up.profileImage}
          IN /\ (up.thumbnail = <<>> /\ up.profileImage # <<>>) =>
                  /\ i \in DOMAIN docs'
                  /\ docs'[i].thumbLink = docs[i].thumbLink
                  /\ other(docs[i].thumbLink)
                       => Basename(docs[i].thumbLink) \in files'
             /\ (up.profileImage = <<>> /\ up.thumbnail # <<>>) =>
                  /\ i \in DOMAIN docs'
                  /\ docs'[i].profileInfo.profilePreviewUrl
                       = docs[i].profileInfo.profilePreviewUrl
                  /\ other(docs[i].profileInfo.profilePreviewUrl)
                       => Basename(docs[i].profileInfo.profilePreviewUrl)
                            \in files']_vars

\* C15: MIME allow-list.  The filter accepts a file exactly when its MIME
\* type is image/jpeg, image/png or image/jpg; an upload is let through to
\* the handler exactly when every file it carries is of such a type, and an
\* upload that is not ends there with an error status, no stored document
\* changed and no file added to the uploads folder.
C15_MimeAllowList ==
  [][\A r \in Req :
       ( /\ req[r].pc = "idle"
         /\ req'[r].op = "upload" )
       => LET listed == {"image/jpeg", "image/png", "image/jpg"}
          IN /\ \A m \in req'[r].mimes :
                  fileFilter([originalname |-> "a.png", mimetype |-> m])
                    <=> m \in listed
             /\ req'[r].pc = "find" <=> req'[r].mimes \subseteq listed
             /\ ~(req'[r].mimes \subseteq listed) =>
                  /\ req'[r].pc = "done"
                  /\ req'[r].status >= 400
                  /\ docs' = docs
                  /\ files' \subseteq files]_vars

C15_Witness ==
  \E r \in Req :
    /\ req[r].op = "upload"
    /\ req[r].pc = "done"
    /\ req[r].mimes = {"image/png", "application/pdf"}
    /\ req[r].status = 500
    /\ findOne(req[r].id, req[r].user)

\* C16: an upload by the owner that carries no file at all is answered 400
\* with the fixed "No files uploaded" message (no exception text), and none
\* of its steps changes a stored document or the uploads folder.
C16_NoFilesRejected ==
  [][\A r \in Req :
       ( /\ StepOf(r)
         /\ req'[r].op = "upload"
         /\ req'[r].mimes = {} )
       => /\ docs' = docs
          /\ files' = files
          /\ (Completes(r) /\ findOne(req'[r].id, req'[r].user))
               => req'[r].status = 400 /\ req'[r].error = NoError]_vars

C16_Witness ==
  \E r \in Req :
    /\ req[r].op = "upload"
    /\ req[r].pc = "done"
    /\ req[r].mimes = {}
    /\ req[r].status = 400
    /\ findOne(req[r].id, req[r].user)
    /\ files # {}

\* C17: a create with an empty or missing title persists no document and is
\* answered with an outcome of its own kind: its status differs from the
\* status a create answers with when the store fails.
C17_CreateValidationKind ==
  [][\A r \in Req :
       ( /\ StepOf(r)
         /\ req'[r].op = "create"
         /\ req'[r].error = ValidationMessage )
       => /\ docs' = docs
          /\ \A q \in Req :
               ( /\ req'[q].op = "create"
                 /\ req'[q].pc = "done"
                 /\ req'[q].error = StoreMessage )
               => req'[q].status # req'[r].status]_vars

\* C18: the list of a principal holds exactly the stored documents whose
\* userId is that principal, each once, ordered by updatedAt descending.
C18_ListByOwner ==
  [][\A r \in Req :
       ( /\ StepOf(r)
         /\ req'[r].op = "list" )
       => LET s == req'[r].list
          IN /\ req'[r].status = 200
             /\ {s[k] : k \in DOMAIN s}
                  = {i \in DOMAIN docs : docs[i].userId = req'[r].user}
             /\ \A j, k \in DOMAIN s : j # k => s[j] # s[k]
             /\ \A j, k \in DOMAIN s :
                  j < k => docs[s[j]].updatedAt >= docs[s[k]].updatedAt]_vars

C18_Witness ==
  \E r \in Req :
    /\ req[r].op = "list"
    /\ req[r].pc = "done"
    /\ req[r].list = <<1, 2>>
    /\ docs[1].updatedAt > docs[2].updatedAt

\* C19: error responses never leak internals.  No response with an error
\* status carries the message of an exception of the store or of the file
\* system.
C19_NoLeak ==
  \A r \in Req :
    (req[r].pc = "done" /\ req[r].status >= 400)
    => req[r].error \notin {StoreMessage, NotFoundMessage, UnlinkMessage}

C21_LastWriteWins ==
  [][\A r \in Req :
       ( /\ req[r].op = "update" /\ req[r].pc = "save"
         /\ Completes(r)
         /\ req'[r].error # StoreMessage
         /\ Valid(req[r].doc)
         /\ req[r].id \in DOMAIN docs
         /\ \E q \in Req \ {r} :
              /\ req[q].op = "update" /\ req[q].id = req[r].id
              /\ req[q].pc = "save" \/ (req[q].pc = "done" /\ req[q].status = 200) )
       => /\ req'[r].status = 200
          /\ req[r].id \in DOMAIN docs'
          /\ \A k \in req[r].body.has \cap SchemaKeys :
               docs'[req[r].id][k] = req[r].body[k]]_vars

\* C26: the step order of a replace.  A step of an upload handler that
\* removes a file is its replace step, taken after multer stored the files
\* of the request and before the document is persisted; the step that
\* persists the document is its save step, taken after the replace step.
C26_ReplaceOrder ==
  [][\A r \in Req :
       (StepOf(r) /\ req[r].op = "upload")
       => /\ files' # files
               => /\ req[r].pc = "replace"
                  /\ ({req[r].up.thumbnail, req[r].up.profileImage} \ {<<>>})
                        \subseteq everStored
                  /\ docs' = docs
          /\ docs' # docs
               => /\ req[r].pc = "save"
                  /\ files' = files
                  /\ req[r].up.profileImage # <<>>
                  /\ docs'[req[r].id].profileInfo.profilePreviewUrl
                        = Url(req[r].up.profileImage)]_vars

\* an upload is between its replace step and its save step: the new file is
\* stored, the file the document named is deleted, the document still names it
C26_Witness ==
  \E r \in Req :
    /\ req[r].op = "upload" /\ req[r].pc = "save"
    /\ req[r].id \in DOMAIN docs
    /\ req[r].up.profileImage \in files
    /\ docs[req[r].id].profileInfo.profilePreviewUrl # NoUrl
    /\ docs[req[r].id].profileInfo.profilePreviewUrl # Url(req[r].up.profileImage)
    /\ Basename(docs[req[r].id].profileInfo.profilePreviewUrl) \notin files

\* C27: stored filenames are never reused.  The name multer stores a file
\* under is the name of no file of the uploads folder, and the two files of
\* one request are stored under two names.
C27_FilenamesNeverReused ==
  [][\A r \in Req :
       (req[r].pc = "idle" /\ req'[r].op = "upload" /\ req'[r].pc = "find")
       => /\ req'[r].up.thumbnail # <<>> => req'[r].up.thumbnail \notin files
          /\ req'[r].up.profileImage # <<>> => req'[r].up.profileImage \notin files
          /\ req'[r].up.thumbnail # <<>> =>
               req'[r].up.thumbnail # req'[r].up.profileImage]_vars

\* C28: asset isolation between principals.  No step of a request of one
\* principal removes from the uploads folder a file that a document owned by
\* another principal names.
C28_AssetIsolation ==
  [][\A r \in Req :
       StepOf(r) =>
         \A i \in DOMAIN docs :
           docs[i].userId # req'[r].user =>
             \A url \in {docs[i].thumbLink, docs[i].profileInfo.profilePreviewUrl} :
               (url # NoUrl /\ Basename(url) \in files)
                 => Basename(url) \in files']_vars

\* C29: a completed delete is never undone.  No step brings back a document
\* whose _id was assigned and is no longer in the collection, so the save of
\* an update or upload that loaded the document before the delete does not
\* recreate it, and a getById of that _id answers 404.
C29_DeleteNotUndone ==
  [][/\ \A i \in 1..(nextId - 1) : i \notin DOMAIN docs => i \notin DOMAIN docs'
     /\ \A r \in Req :
          ( /\ StepOf(r) /\ req'[r].op = "get"
            /\ req'[r].id < nextId /\ req'[r].id \notin DOMAIN docs )
          => req'[r].status = 404]_vars

\* an update that loaded the document before the delete has called save()
\* after it: save() threw, the document is still gone
C29_Witness ==
  \E r \in Req :
    /\ req[r].op \in {"update", "upload"} /\ req[r].pc = "done"
    /\ req[r].error = NotFoundMessage
    /\ req[r].id \notin DOMAIN docs

\* C30: two deletes of one document by its owner, in flight together.  The
\* one that ends while the other is in flight or answered answers 200 or 404,
\* 404 when the other answered 200, and after a 200 the record is gone.
C30_ConcurrentDeletes ==
  [][\A r \in Req :
       ( /\ req[r].op = "delete" /\ req[r].pc \in {"cleanup", "remove"}
         /\ Completes(r)
         /\ \E q \in Req \ {r} :
              /\ req[q].op = "delete" /\ req[q].id = req[r].id
              /\ req[q].user = req[r].user
              /\ req[q].pc \in {"cleanup", "remove", "done"} )
       => /\ req'[r].status \in {200, 404}
          /\ req'[r].status = 200 => req[r].id \notin DOMAIN docs'
          /\ \A q \in Req \ {r} :
               ( /\ req[q].op = "delete" /\ req[q].id = req[r].id
                 /\ req[q].pc = "done" /\ req[q].status = 200 )
               => req'[r].status = 404]_vars


\* a counted field holds something: a string that is not empty after
\* trimming, a progress above 0
Populated(k, v) == IF k = "progress" THEN v > 0 ELSE trim(v) # ""

\* the number of the fields of a record that hold something
PopulatedIn(rec) == Cardinality({k \in DOMAIN rec : Populated(k, rec[k])})

\* the number of counted fields of a resume that hold something
CountedCompleted(doc) ==
  PopulatedIn(doc.profileInfo) + PopulatedIn(doc.contactInfo)
  + Sum([i \in DOMAIN doc.workExperience |-> PopulatedIn(doc.workExperience[i])])
  + Sum([i \in DOMAIN doc.education |-> PopulatedIn(doc.education[i])])
  + Sum([i \in DOMAIN doc.skills |-> PopulatedIn(doc.skills[i])])
  + Sum([i \in DOMAIN doc.projects |-> PopulatedIn(doc.projects[i])])
  + Sum([i \in DOMAIN doc.certifications |-> PopulatedIn(doc.certifications[i])])
  + Sum([i \in DOMAIN doc.languages |-> PopulatedIn(doc.languages[i])])
  + Cardinality({i \in DOMAIN doc.interests :
                   Populated("interests", doc.interests[i])})

\* the number of counted fields of a resume, by the weight of each section
CountedTotal(doc) ==
  3 + 2 + 5 * Len(doc.workExperience) + 4 * Len(doc.education)
  + 2 * Len(doc.skills) + 4 * Len(doc.projects)
  + 3 * Len(doc.certifications) + 2 * Len(doc.languages)
  + Len(doc.interests)

\* round(100 * c / t), a half rounded upwards
RoundedPercent(c, t) == (200 * c + t) \div (2 * t)

\* the resume with every string field trimmed
Trimmed(doc) ==
  [x \in DOMAIN doc |->
     IF x \in {"profileInfo", "contactInfo"}
     THEN [k \in DOMAIN doc[x] |-> trim(doc[x][k])]
     ELSE IF x = "interests"
     THEN [i \in DOMAIN doc[x] |-> trim(doc[x][i])]
     ELSE [i \in DOMAIN doc[x] |->
             [k \in DOMAIN doc[x][i] |->
                IF k = "progress" THEN doc[x][i][k] ELSE trim(doc[x][i][k])]]]

\* every counted field of every section of the resume holds something
AllPopulated(doc) == CountedCompleted(doc) = CountedTotal(doc)

\* C22: the score of every resume is an integer from 0 to 100, also of a
\* resume whose array sections and interests are all empty or absent: the
\* division never yields a value that is no number.
C22_ScoreRange == completion \in 0..100

\* a scored resume without any record and without interests
C22_Witness ==
  /\ \A x \in Sections \cup {"interests"} : resume[x] = <<>>
  /\ edits > 0
  /\ completion \in 0..100

\* C23: the resume create returns for a title alone (every scalar empty, a
\* blank record in the array sections, interests [""]) scores 0, and a
\* resume whose counted fields all hold something scores 100.
C23_DefaultZeroFullHundred ==
  /\ resume \in {DefaultResume,
                 [DefaultResume EXCEPT !.projects = <<BlankOf("projects")>>]}
       => completion = 0
  /\ AllPopulated(resume) => completion = 100

\* a resume other than an initial one, all of whose
\* counted fields hold something, with its score
C23_Witness == AllPopulated(resume) /\ edits > 0 /\ completion = 100

\* C24: the score is round(100 * completed / total): total is 3 for the
\* profile, 2 for the contact, 5 per work experience, 4 per education, 2
\* per skill, 4 per project, 3 per certification, 2 per language and 1 per
\* interest; completed is the number of those fields that hold something, a
\* progress counting only above 0.
C24_ScoreFormula ==
  completion = RoundedPercent(CountedCompleted(resume), CountedTotal(resume))

\* C25: a string field that is empty after trimming does not count: the
\* score of a resume is the score of the resume with its strings trimmed.
C25_TrimRule == completion = calculateCompletion(Trimmed(resume))

====
